---- MODULE Spec2Model ----
(***************************************************************************)
(* Job lifecycle of the handwriting-font web application (app.py): the     *)
(* upload validation and sanitisation of POST /generate, the bounded run   *)
(* of the external "handwrite" tool, and the single-use retrieval of the   *)
(* generated artifact by GET /font/<key> and GET /font/<key>/file.         *)
(*                                                                         *)
(* Strings are sequences of one-character strings.  The shared state is    *)
(* the file system (the upload and the output directory); every request    *)
(* runs on its own worker, so a handler is split at the points where it    *)
(* blocks or touches the shared file system.                               *)
(***************************************************************************)
EXTENDS Integers, Sequences, FiniteSets, TLC

(* ------------------------------ bounds -------------------------------- *)
\* number of POST /generate requests issued in one behaviour
MaxJobs == 2
\* number of GET /font/<key> and GET /font/<key>/file requests issued
MaxRetrievals == 2
\* length of the texts examined by PureSpec
MaxLen == 4

(* --------------------------- characters ------------------------------- *)
Letters == {"a", "b", "x", "t", "p", "n", "g", "j", "e", "P", "N", "G"}
Digits == {"0", "1", "2", "5"}
Whitespace == {" ", "\t", "\n"}

\* str.isalnum() of one character
isalnum(c) == c \in Letters \cup Digits

\* str.lower() of one character
lower_char(c) ==
  CASE c = "P" -> "p"
    [] c = "N" -> "n"
    [] c = "G" -> "g"
    [] OTHER -> c

\* str.lower()
lower(s) == [i \in 1..Len(s) |-> lower_char(s[i])]

RECURSIVE lstrip(_)
lstrip(s) ==
  IF s = <<>> \/ Head(s) \notin Whitespace THEN s ELSE lstrip(Tail(s))

RECURSIVE rstrip(_)
rstrip(s) ==
  IF s = <<>> \/ s[Len(s)] \notin Whitespace
  THEN s
  ELSE rstrip(SubSeq(s, 1, Len(s) - 1))

\* variant: only leading whitespace is removed
strip_leading_only(s) == lstrip(s)

\* str.strip()
strip(s) == rstrip(lstrip(s))

\* position of the last "." of s, 0 when there is none
RECURSIVE last_dot(_)
last_dot(s) ==
  IF s = <<>> THEN 0
  ELSE IF s[Len(s)] = "." THEN Len(s)
  ELSE last_dot(SubSeq(s, 1, Len(s) - 1))

\* filename.rsplit(".", 1)[1], for a filename that contains a "."
rsplit_ext(s) == SubSeq(s, last_dot(s) + 1, Len(s))

ALLOWED_EXTENSIONS ==
  {<<"p", "n", "g">>, <<"j", "p", "g">>, <<"j", "p", "e", "g">>}

\* variant: any suffix is accepted
allowed_file_any_suffix(filename) == last_dot(filename) # 0

allowed_file(filename) ==
  /\ last_dot(filename) # 0
  /\ lower(rsplit_ext(filename)) \in ALLOWED_EXTENSIONS

\* variant: the characters of a relative path are kept as well
IsSafeChar_with_path_chars(c) ==
  isalnum(c) \/ c \in {" ", "-", "_", ".", "/"}

IsSafeChar(c) == isalnum(c) \/ c \in {" ", "-", "_"}

sanitize_text(value) == strip(SelectSeq(value, IsSafeChar))

(* ------------------------------ inputs -------------------------------- *)
\* client-supplied names of the uploaded file part ("" is an empty filename)
UploadNames ==
  { <<>>,
    <<"n", ".", "t", "x", "t">>,
    <<"p", "n", "g">>,
    <<"x", ".", "a", ".", "P", "N", "G">> }

\* client-supplied values of the family and style form fields
FieldInputs == { <<>>, <<" ">>, <<";">>, <<"a">> }

\* client-supplied values of the filename form field
FilenameInputs ==
  { <<>>, <<".", "/">>, <<"a">>, <<" ", "a">>, <<"b">>,
    <<".", ".", "/", "b", ";">> }

\* the <job_id> segment of a retrieval URL (the router never passes "")
UrlKeys == { <<"a">>, <<"b">>, <<" ", "a">> }

\* sanitised filename fields: the keys an artifact can be written under
ArtifactKeys == {sanitize_text(f) : f \in FilenameInputs} \ {<<>>}

\* names <name>.ttf that the model follows in the output directory
OutputNames == ArtifactKeys \cup UrlKeys

(* ------------------------------- state -------------------------------- *)
VARIABLES
  uploads,   \* the files of UPLOAD_DIR: a set of paths <job_id>.<ext>
  outputs,   \* OUTPUT_DIR: name -> the artifact stored as <name>.ttf
  jobs,      \* the POST /generate requests, by job
  gets,      \* the GET /font/... requests (after_served is history: the
             \* request arrived while consumed held of its key)
  consumed,  \* history: key -> a streamed retrieval of it has closed and no
             \* generation request for the key has been in progress since
  probe      \* one text on its way through the sanitiser, the redirect and
             \* the key check (used by PureSpec only)

vars == <<uploads, outputs, jobs, gets, consumed, probe>>

JobIds == 1..MaxJobs
GetIds == 1..MaxRetrievals

\* contents of a slot of the output directory: no file, a file left in the
\* directory before the application started, or the file written by the
\* tool run of job j (named j)
NoFile == 0
Leftover == -1

NoPath == [job_id |-> 0, ext |-> <<>>]

\* variant: the stored name does not depend on the job
ImgPath_shared_name(job_id, ext) == [job_id |-> 1, ext |-> ext]

\* img_path = UPLOAD_DIR / f"{job_id}.{ext}"
ImgPath(job_id, ext) == [job_id |-> job_id, ext |-> ext]

NewJob ==
  [ pc |-> "new", filename |-> <<>>, img_path |-> NoPath, child |-> "none",
    returncode |-> -1, orphans |-> FALSE, wrote |-> FALSE, runs |-> 0,
    flash |-> "", redirect |-> <<>> ]

NewGet ==
  [ kind |-> "none", job_id |-> <<>>, pc |-> "new", status |-> 0,
    sent |-> NoFile, transfer |-> "none", after_served |-> FALSE ]

NoProbe ==
  [ stage |-> "none", text |-> <<>>, key |-> <<>>, again |-> <<>>,
    path |-> <<>>, status |-> 0 ]

\* names of the output directory that are no key in sanitised form
StrayNames == {n \in OutputNames : sanitize_text(n) # n}

\* UPLOAD_DIR.mkdir(exist_ok=True); OUTPUT_DIR.mkdir(exist_ok=True): the
\* directories may exist already, and the output directory may hold a file
\* that no job of the application wrote
Init ==
  /\ uploads = {}
  /\ outputs \in { f \in [OutputNames -> {NoFile, Leftover}] :
                     /\ \A n \in OutputNames \ StrayNames : f[n] = NoFile
                     /\ Cardinality({n \in StrayNames : f[n] # NoFile}) <= 1 }
  /\ jobs = [j \in JobIds |-> NewJob]
  /\ gets = [r \in GetIds |-> NewGet]
  /\ consumed = [k \in OutputNames |-> FALSE]
  /\ probe = NoProbe

\* ttf_path.exists()
exists(name) == outputs[name] # NoFile

\* variant: the cleanup empties the output directory
unlink_ttf_whole_directory(name) == [n \in OutputNames |-> NoFile]

\* ttf_path.unlink(missing_ok=True)
unlink_ttf(name) == [outputs EXCEPT ![name] = NoFile]

\* variant: the upload is left in place
unlink_img_skipped(path) == uploads

\* img_path.unlink(missing_ok=True)
unlink_img(path) == uploads \ {path}

\* a generation request for key k is in progress: it has been accepted and
\* its handler has not responded yet
InProgress(k) ==
  \E j \in JobIds :
    /\ jobs[j].filename = k
    /\ jobs[j].pc \in {"saved", "running", "check"}

\* requests are numbered in the order in which they arrive
NextJob(j) ==
  jobs[j].pc = "new" /\ (IF j = 1 THEN TRUE ELSE jobs[j - 1].pc # "new")
NextGet(r) ==
  gets[r].pc = "new" /\ (IF r = 1 THEN TRUE ELSE gets[r - 1].pc # "new")

(* ------------------------- POST /generate ----------------------------- *)
Rejected(j, message) ==
  /\ jobs' = [jobs EXCEPT ![j].pc = "done", ![j].flash = message,
                          ![j].redirect = <<"generate">>]
  /\ UNCHANGED <<probe, uploads, outputs, gets, consumed>>

\* lines 58-85: the request fails validation
GenerateInvalid(j) ==
  /\ NextJob(j)
  /\ \/ Rejected(j, "No file part in the request.")
     \/ \E name \in UploadNames :
          /\ name = <<>>
          /\ Rejected(j, "No file selected.")
     \/ \E name \in UploadNames :
          /\ name # <<>>
          /\ ~allowed_file(name)
          /\ Rejected(j, "Only JPG or PNG files are accepted.")
     \/ \E name \in UploadNames, family \in FieldInputs :
          /\ name # <<>> /\ allowed_file(name)
          /\ sanitize_text(family) = <<>>
          /\ Rejected(j, "Font family name is required.")
     \/ \E name \in UploadNames, family, style \in FieldInputs :
          /\ name # <<>> /\ allowed_file(name)
          /\ sanitize_text(family) # <<>>
          /\ sanitize_text(style) = <<>>
          /\ Rejected(j, "Font style is required.")
     \/ \E name \in UploadNames, family, style \in FieldInputs :
          /\ name # <<>> /\ allowed_file(name)
          /\ sanitize_text(family) # <<>>
          /\ sanitize_text(style) # <<>>
          /\ \E filename \in FilenameInputs :
               /\ sanitize_text(filename) = <<>>
               /\ Rejected(j, "File name is required.")

\* lines 58-92: the request passes validation and the upload is saved under
\* a fresh job id
GenerateSave(j) ==
  /\ NextJob(j)
  /\ \E name \in UploadNames, family, style \in FieldInputs :
       /\ name # <<>> /\ allowed_file(name)
       /\ sanitize_text(family) # <<>>
       /\ sanitize_text(style) # <<>>
       /\ \E filename \in FilenameInputs :
            LET key == sanitize_text(filename)
                img_path == ImgPath(j, lower(rsplit_ext(name)))
            IN /\ key # <<>>
               /\ jobs' = [jobs EXCEPT ![j].pc = "saved",
                                       ![j].filename = key,
                                       ![j].img_path = img_path]
               /\ uploads' = uploads \cup {img_path}
               /\ consumed' = [consumed EXCEPT ![key] = FALSE]
  /\ UNCHANGED <<probe, outputs, gets>>

\* variant: the missing executable is not caught and the handler ends
\* without message or redirect
GenerateToolMissing_uncaught(j) ==
  /\ jobs[j].pc = "saved"
  /\ uploads' = uploads
  /\ jobs' = [jobs EXCEPT ![j].pc = "done"]
  /\ UNCHANGED <<probe, outputs, gets, consumed>>

\* lines 106-116: subprocess.run finds no "handwrite" executable
GenerateToolMissing(j) ==
  /\ jobs[j].pc = "saved"
  /\ uploads' = unlink_img(jobs[j].img_path)
  /\ jobs' = [jobs EXCEPT ![j].pc = "done",
                          ![j].flash = "handwrite is not installed.",
                          ![j].redirect = <<"generate">>]
  /\ UNCHANGED <<probe, outputs, gets, consumed>>

\* lines 97-112: subprocess.run starts the child process and waits for it
GenerateRun(j) ==
  /\ jobs[j].pc = "saved"
  /\ jobs' = [jobs EXCEPT ![j].pc = "running", ![j].child = "running",
                          ![j].runs = @ + 1]
  /\ UNCHANGED <<probe, uploads, outputs, gets, consumed>>

\* the running tool starts a process of its own
ToolSpawn(j) ==
  /\ jobs[j].child = "running"
  /\ ~jobs[j].orphans
  /\ jobs' = [jobs EXCEPT ![j].orphans = TRUE]
  /\ UNCHANGED <<probe, uploads, outputs, gets, consumed>>

\* a process of the tool run writes <filename>.ttf into the output directory
ToolWrite(j) ==
  /\ jobs[j].child = "running" \/ jobs[j].orphans
  /\ ~jobs[j].wrote
  /\ outputs' = [outputs EXCEPT ![jobs[j].filename] = j]
  /\ jobs' = [jobs EXCEPT ![j].wrote = TRUE]
  /\ UNCHANGED <<probe, uploads, gets, consumed>>

\* the processes started by the tool end by themselves
ToolSpawnedExit(j) ==
  /\ jobs[j].orphans
  /\ jobs' = [jobs EXCEPT ![j].orphans = FALSE]
  /\ UNCHANGED <<probe, uploads, outputs, gets, consumed>>

\* lines 107-120: the 120 s limit expires; subprocess.run kills the child it
\* started, waits for it and raises TimeoutExpired
GenerateTimeout(j) ==
  /\ jobs[j].pc = "running"
  /\ uploads' = unlink_img(jobs[j].img_path)
  /\ jobs' = [jobs EXCEPT ![j].pc = "done", ![j].child = "killed",
                          ![j].flash = "Font generation timed out.",
                          ![j].redirect = <<"generate">>]
  /\ UNCHANGED <<probe, outputs, gets, consumed>>

\* variant: a failed run is started again
GenerateReturn_retrying_failure(j) ==
  /\ jobs[j].pc = "running"
  /\ \E rc \in {0, 1} :
       /\ uploads' = IF rc # 0 THEN uploads
                     ELSE uploads \ {jobs[j].img_path}
       /\ jobs' = [jobs EXCEPT
                     ![j].child = "exited",
                     ![j].returncode = rc,
                     ![j].pc = IF rc # 0 THEN "saved" ELSE "check"]
  /\ UNCHANGED <<probe, outputs, gets, consumed>>

\* lines 107-127: the child exits with returncode rc, subprocess.run returns,
\* the upload is removed and a non-zero exit is reported
GenerateReturn(j) ==
  /\ jobs[j].pc = "running"
  /\ uploads' = unlink_img(jobs[j].img_path)
  /\ \E rc \in {0, 1} :
       jobs' = [jobs EXCEPT
                  ![j].child = "exited",
                  ![j].returncode = rc,
                  ![j].pc = IF rc # 0 THEN "done" ELSE "check",
                  ![j].flash = IF rc # 0 THEN "handwrite failed" ELSE "",
                  ![j].redirect = IF rc # 0 THEN <<"generate">> ELSE <<>>]
  /\ UNCHANGED <<probe, outputs, gets, consumed>>

\* variant: a zero exit is taken as proof of the output file
GenerateCheck_trusting_exit_status(j) ==
  /\ jobs[j].pc = "check"
  /\ jobs' = [jobs EXCEPT
                ![j].pc = "done",
                ![j].flash = "",
                ![j].redirect = <<"download_font", jobs[j].filename>>]
  /\ UNCHANGED <<probe, uploads, outputs, gets, consumed>>

\* lines 129-135: after a zero exit, look for <filename>.ttf
GenerateCheck(j) ==
  /\ jobs[j].pc = "check"
  /\ jobs' = [jobs EXCEPT
                ![j].pc = "done",
                ![j].flash = IF exists(jobs[j].filename) THEN ""
                             ELSE "handwrite ran but produced no output file.",
                ![j].redirect = IF exists(jobs[j].filename)
                                THEN <<"download_font", jobs[j].filename>>
                                ELSE <<"generate">>]
  /\ UNCHANGED <<probe, uploads, outputs, gets, consumed>>

(* --------------------------- GET /font/... ---------------------------- *)
\* variant: only an empty sanitised key is refused
bad_key_only_when_empty(job_id) == sanitize_text(job_id) = <<>>

\* lines 145-146, 158-159: the key is not in sanitised form
bad_key(job_id) ==
  LET safe == sanitize_text(job_id)
  IN safe = <<>> \/ safe # job_id

\* lines 142-153: GET /font/<job_id>, the retrieval landing page
DownloadFont(r) ==
  /\ NextGet(r)
  /\ \E job_id \in UrlKeys :
       gets' = [gets EXCEPT
                  ![r].kind = "page",
                  ![r].job_id = job_id,
                  ![r].pc = "done",
                  ![r].status = IF bad_key(job_id) THEN 400
                                ELSE IF ~exists(job_id) THEN 404
                                ELSE 200]
  /\ UNCHANGED <<probe, uploads, outputs, jobs, consumed>>

\* lines 156-164: GET /font/<job_id>/file up to the existence check
ServeCheck(r) ==
  /\ NextGet(r)
  /\ \E job_id \in UrlKeys :
       gets' = [gets EXCEPT
                  ![r].kind = "file",
                  ![r].job_id = job_id,
                  ![r].after_served = consumed[job_id],
                  ![r].pc = IF bad_key(job_id) \/ ~exists(job_id)
                            THEN "done" ELSE "open",
                  ![r].status = IF bad_key(job_id) THEN 400
                                ELSE IF ~exists(job_id) THEN 404
                                ELSE 0]
  /\ UNCHANGED <<probe, uploads, outputs, jobs, consumed>>

\* lines 166-173: send_from_directory opens the file (NotFound when it has
\* gone since the check), the cleanup is registered and streaming starts
ServeSend(r) ==
  /\ gets[r].pc = "open"
  /\ gets' = [gets EXCEPT
                ![r].pc = IF exists(gets[r].job_id) THEN "streaming"
                          ELSE "done",
                ![r].status = IF exists(gets[r].job_id) THEN 200 ELSE 404,
                ![r].sent = outputs[gets[r].job_id]]
  /\ UNCHANGED <<probe, uploads, outputs, jobs, consumed>>

\* variant: the artifact is removed only after a complete transfer
ServeClose_unlink_after_complete_only(r) ==
  /\ gets[r].pc = "streaming"
  /\ \E transfer \in {"complete", "aborted"} :
       /\ gets' = [gets EXCEPT ![r].pc = "done", ![r].transfer = transfer]
       /\ outputs' = IF transfer = "complete"
                     THEN [outputs EXCEPT ![gets[r].job_id] = NoFile]
                     ELSE outputs
  /\ consumed' = [consumed EXCEPT
                    ![gets[r].job_id] = ~InProgress(gets[r].job_id)]
  /\ UNCHANGED <<probe, uploads, jobs>>

\* lines 169-171: the response closes, after a complete transfer or after
\* the client went away, and cleanup() removes whatever is at ttf_path
ServeClose(r) ==
  /\ gets[r].pc = "streaming"
  /\ \E transfer \in {"complete", "aborted"} :
       gets' = [gets EXCEPT ![r].pc = "done", ![r].transfer = transfer]
  /\ outputs' = unlink_ttf(gets[r].job_id)
  /\ consumed' = [consumed EXCEPT
                    ![gets[r].job_id] = ~InProgress(gets[r].job_id)]
  /\ UNCHANGED <<probe, uploads, jobs>>

(* ------------------ one text through the pure functions --------------- *)
\* the characters of which the examined texts are made
TextAlphabet == {"a", "1", " ", "-", "_", ".", "/", ";", "\t"}

\* all texts of at most n characters
RECURSIVE TextsUpTo(_)
TextsUpTo(n) ==
  IF n = 0 THEN {<<>>}
  ELSE LET shorter == TextsUpTo(n - 1)
       IN shorter \cup {Append(t, c) : t \in shorter, c \in TextAlphabet}

Texts == TextsUpTo(MaxLen)

\* variant: a space becomes "+", as in a query string
url_quote_plus(s) ==
  IF s = <<>> THEN <<>>
  ELSE LET F[i \in 1..Len(s)] ==
             LET c == IF s[i] = " " THEN <<"+">>
                      ELSE IF s[i] = "%" THEN <<"%", "2", "5">>
                      ELSE <<s[i]>>
             IN IF i = 1 THEN c ELSE F[i - 1] \o c
       IN F[Len(s)]

\* url_for(..., job_id=filename): the key as a path segment of the Location
\* header (a space becomes %20, a percent sign %25)
url_quote(s) ==
  IF s = <<>> THEN <<>>
  ELSE LET F[i \in 1..Len(s)] ==
             LET c == IF s[i] = " " THEN <<"%", "2", "0">>
                      ELSE IF s[i] = "%" THEN <<"%", "2", "5">>
                      ELSE <<s[i]>>
             IN IF i = 1 THEN c ELSE F[i - 1] \o c
       IN F[Len(s)]

\* the router decodes the path segment before it calls the view
RECURSIVE url_unquote(_)
url_unquote(s) ==
  IF s = <<>> THEN <<>>
  ELSE IF Len(s) >= 3 /\ SubSeq(s, 1, 3) = <<"%", "2", "0">>
       THEN <<" ">> \o url_unquote(SubSeq(s, 4, Len(s)))
  ELSE IF Len(s) >= 3 /\ SubSeq(s, 1, 3) = <<"%", "2", "5">>
       THEN <<"%">> \o url_unquote(SubSeq(s, 4, Len(s)))
  ELSE <<Head(s)>> \o url_unquote(Tail(s))

\* the components of a relative or absolute path string, as pathlib parses
\* it: "/" separates, empty and "." components are dropped
RECURSIVE path_parts(_, _)
path_parts(s, current) ==
  LET done == IF current \in {<<>>, <<".">>} THEN <<>> ELSE <<current>>
  IN IF s = <<>> THEN done
     ELSE IF Head(s) = "/" THEN done \o path_parts(Tail(s), <<>>)
     ELSE path_parts(Tail(s), Append(current, Head(s)))

\* the configured output directory, as the one component of its path
OUTPUT_DIR == <<<<"outputs">>>>

\* OUTPUT_DIR / f"{key}.ttf": pathlib replaces the left operand when the
\* right one is absolute
ttf_path(key) ==
  LET name == key \o <<".", "t", "t", "f">>
  IN IF Head(name) = "/" THEN path_parts(name, <<>>)
     ELSE OUTPUT_DIR \o path_parts(name, <<>>)

ProbeStart(t) ==
  [ stage |-> "input", text |-> t, key |-> <<>>, again |-> <<>>,
    path |-> <<>>, status |-> 0 ]

\* a behaviour of PureSpec follows one text; the file system and the
\* requests stay as they are after start-up
PureInit ==
  /\ uploads = {}
  /\ outputs = [n \in OutputNames |-> NoFile]
  /\ jobs = [j \in JobIds |-> NewJob]
  /\ gets = [r \in GetIds |-> NewGet]
  /\ consumed = [k \in OutputNames |-> FALSE]
  /\ probe \in {ProbeStart(t) : t \in Texts}

\* lines 75, 83-85, 130: the text is the filename form field
ProbeFilenameField ==
  /\ probe.stage = "input"
  /\ LET key == sanitize_text(probe.text)
     IN probe' = [probe EXCEPT
                    !.stage = "field",
                    !.key = key,
                    !.again = sanitize_text(key),
                    !.status = IF key = <<>> THEN 302 ELSE 0,
                    !.path = IF key = <<>> THEN <<>> ELSE ttf_path(key)]
  /\ UNCHANGED <<uploads, outputs, jobs, gets, consumed>>

\* lines 135, 142-147: the redirect of a successful request is followed
ProbeFollowRedirect ==
  /\ probe.stage = "field"
  /\ probe.key # <<>>
  /\ LET job_id == url_unquote(url_quote(probe.key))
     IN probe' = [probe EXCEPT
                    !.stage = "followed",
                    !.text = job_id,
                    !.status = IF bad_key(job_id) THEN 400 ELSE 200,
                    !.path = IF bad_key(job_id) THEN <<>>
                             ELSE ttf_path(job_id)]
  /\ UNCHANGED <<uploads, outputs, jobs, gets, consumed>>

\* lines 156-162: the text is the <job_id> segment of a retrieval URL
ProbeUrlSegment ==
  /\ probe.stage = "input"
  /\ probe.text # <<>>
  /\ \A i \in 1..Len(probe.text) : probe.text[i] # "/"
  /\ probe' = [probe EXCEPT
                 !.stage = "segment",
                 !.key = probe.text,
                 !.status = IF bad_key(probe.text) THEN 400 ELSE 200,
                 !.path = IF bad_key(probe.text) THEN <<>>
                          ELSE ttf_path(probe.text)]
  /\ UNCHANGED <<uploads, outputs, jobs, gets, consumed>>

PureNext ==
  \/ ProbeFilenameField
  \/ ProbeFollowRedirect
  \/ ProbeUrlSegment

PureSpec == PureInit /\ [][PureNext]_vars

(* -------------------------- specification ----------------------------- *)
Next ==
  \/ \E j \in JobIds :
       \/ GenerateInvalid(j)
       \/ GenerateSave(j)
       \/ GenerateToolMissing(j)
       \/ GenerateRun(j)
       \/ ToolSpawn(j)
       \/ ToolWrite(j)
       \/ ToolSpawnedExit(j)
       \/ GenerateTimeout(j)
       \/ GenerateReturn(j)
       \/ GenerateCheck(j)
  \/ \E r \in GetIds :
       \/ DownloadFont(r)
       \/ ServeCheck(r)
       \/ ServeSend(r)
       \/ ServeClose(r)

Spec == Init /\ [][Next]_vars

\* the WSGI server closes every response it has started to send
FairSpec == Spec /\ \A r \in GetIds : WF_vars(ServeClose(r))

\* lines 106-135: the next step of the handler of an accepted request; the
\* wait in subprocess.run ends with the exit of the child or, at the latest,
\* with the 120 s limit
HandlerStep(j) ==
  \/ GenerateToolMissing(j)
  \/ GenerateRun(j)
  \/ GenerateTimeout(j)
  \/ GenerateReturn(j)
  \/ GenerateCheck(j)

\* the WSGI server runs every handler it has entered
GenerateFairSpec == Spec /\ \A j \in JobIds : WF_vars(HandlerStep(j))

\* clients that send their POST /generate requests one after the other, each
\* after the response to the one before, and their GET requests after the
\* responses to all of them; the handlers and the processes of the tool run
\* as in Next
AfterEarlierResponses(j) == \A i \in JobIds : i < j => jobs[i].pc = "done"
AfterAllResponses == \A j \in JobIds : jobs[j].pc = "done"

SeqGenerateInvalid(j) == AfterEarlierResponses(j) /\ GenerateInvalid(j)
SeqGenerateSave(j) == AfterEarlierResponses(j) /\ GenerateSave(j)
SeqDownloadFont(r) == AfterAllResponses /\ DownloadFont(r)
SeqServeCheck(r) == AfterAllResponses /\ ServeCheck(r)

SeqNext ==
  \/ \E j \in JobIds :
       \/ SeqGenerateInvalid(j)
       \/ SeqGenerateSave(j)
       \/ GenerateToolMissing(j)
       \/ GenerateRun(j)
       \/ ToolSpawn(j)
       \/ ToolWrite(j)
       \/ ToolSpawnedExit(j)
       \/ GenerateTimeout(j)
       \/ GenerateReturn(j)
       \/ GenerateCheck(j)
  \/ \E r \in GetIds :
       \/ SeqDownloadFont(r)
       \/ SeqServeCheck(r)
       \/ ServeSend(r)
       \/ ServeClose(r)

SeqSpec == Init /\ [][SeqNext]_vars

TypeOK ==
  /\ uploads \subseteq {ImgPath(j, e) : j \in JobIds, e \in ALLOWED_EXTENSIONS}
  /\ outputs \in [OutputNames -> {NoFile, Leftover} \cup JobIds]
  /\ consumed \in [OutputNames -> BOOLEAN]
  /\ \A j \in JobIds :
       /\ jobs[j].pc \in {"new", "saved", "running", "check", "done"}
       /\ jobs[j].child \in {"none", "running", "exited", "killed"}
       /\ jobs[j].redirect \in
            {<<>>, <<"generate">>} \cup
            {<<"download_font", k>> : k \in ArtifactKeys}
  /\ \A r \in GetIds :
       /\ gets[r].pc \in {"new", "open", "streaming", "done"}
       /\ gets[r].status \in {0, 200, 400, 404}

(* ------------------------------ claims -------------------------------- *)
ValidationMessages ==
  { "No file part in the request.", "No file selected.",
    "Only JPG or PNG files are accepted.", "Font family name is required.",
    "Font style is required.", "File name is required." }

TimedOut(j) == jobs[j].flash = "Font generation timed out."

Succeeded(j) ==
  jobs[j].pc = "done" /\ jobs[j].redirect = <<"download_font", jobs[j].filename>>

\* C1: whenever a POST /generate request that saved an upload has responded,
\* on whichever exit path, the file at its image_path does not exist.
C1_UploadRemovedOnEveryExit ==
  \A j \in JobIds :
    (jobs[j].pc = "done" /\ jobs[j].img_path # NoPath)
      => jobs[j].img_path \notin uploads

\* a timed-out request and a successful one have both responded
C1_Witness ==
  \E j1, j2 \in JobIds :
    /\ jobs[j1].pc = "done" /\ TimedOut(j1) /\ jobs[j1].img_path # NoPath
    /\ Succeeded(j2) /\ jobs[j2].img_path # NoPath

\* C2: the artifact written by one tool run is streamed to at most one
\* GET /font/<key>/file request.
C2_NoArtifactServedTwice ==
  \A r1, r2 \in GetIds :
    (gets[r1].sent \in JobIds /\ gets[r2].sent = gets[r1].sent) => r1 = r2

\* C3: a GET /font/<key>/file that arrives after a retrieval of the key has
\* streamed and closed, with no generation request for the key in progress
\* in between, answers 404.
C3_SecondRetrievalNotFound ==
  \A r \in GetIds :
    gets[r].after_served => (gets[r].pc = "done" /\ gets[r].status = 404)

\* a retrieval has streamed an artifact and closed, and a later retrieval of
\* the same key was answered
C3_Witness ==
  \E r1, r2 \in GetIds :
    /\ r1 # r2
    /\ gets[r1].pc = "done" /\ gets[r1].sent \in JobIds
    /\ gets[r2].job_id = gets[r1].job_id
    /\ gets[r2].after_served /\ gets[r2].pc = "done"

\* C4: a request rejected by validation has no file in the upload area and
\* never started the tool; a request that saved a file or started the tool
\* passed validation (allow-listed extension, non-empty sanitised filename).
C4_RejectedNeverSavesOrRuns ==
  \A j \in JobIds :
    /\ jobs[j].flash \in ValidationMessages =>
         /\ jobs[j].img_path = NoPath
         /\ jobs[j].runs = 0 /\ jobs[j].child = "none" /\ ~jobs[j].orphans
         /\ \A p \in uploads : p.job_id # j
    /\ (jobs[j].img_path # NoPath \/ jobs[j].runs > 0) =>
         /\ jobs[j].flash \notin ValidationMessages
         /\ jobs[j].img_path.ext \in ALLOWED_EXTENSIONS
         /\ jobs[j].filename # <<>>
    /\ \A p \in uploads : p.ext \in ALLOWED_EXTENSIONS

\* one request was rejected while another one has its upload saved
C4_Witness ==
  \E j1, j2 \in JobIds :
    /\ jobs[j1].pc = "done" /\ jobs[j1].flash \in ValidationMessages
    /\ jobs[j2].img_path \in uploads

\* C5: after a request ended with the timed-out outcome, no process started
\* for its job is running (neither the child nor a process it spawned) and
\* its input file is gone.
C5_TimeoutLeavesNothingRunning ==
  \A j \in JobIds :
    (jobs[j].pc = "done" /\ TimedOut(j)) =>
      /\ jobs[j].child # "running"
      /\ ~jobs[j].orphans
      /\ jobs[j].img_path \notin uploads

\* the step in which request j responds
Responds(j) == jobs[j].pc # "done" /\ jobs'[j].pc = "done"

\* C6: a POST /generate request redirects to /font/<sanitised filename> if
\* and only if the tool exited with status zero and <filename>.ttf exists
\* when the handler looks for it; a zero exit with the file missing is
\* reported as "no output" with a redirect back to the form.
C6_RedirectIffExitZeroAndFile ==
  [][ \A j \in JobIds :
        Responds(j) =>
          LET key == jobs'[j].filename
              found == jobs'[j].returncode = 0 /\ outputs[key] # NoFile
          IN /\ (jobs'[j].redirect = <<"download_font", key>>) <=> found
             /\ found => sanitize_text(key) = key /\ jobs'[j].flash = ""
             /\ ~found => jobs'[j].redirect = <<"generate">>
             /\ (jobs'[j].returncode = 0 /\ outputs[key] = NoFile) =>
                  jobs'[j].flash =
                    "handwrite ran but produced no output file."
    ]_vars

\* one request was redirected to the retrieval page, another one had a zero
\* exit without an output file
C6_Witness ==
  \E j1, j2 \in JobIds :
    /\ Succeeded(j1)
    /\ jobs[j2].pc = "done" /\ jobs[j2].returncode = 0
    /\ jobs[j2].redirect = <<"generate">>

\* the step in which retrieval request r is answered 400 or 404
Rejects(r) ==
  gets[r].status \notin {400, 404} /\ gets'[r].status \in {400, 404}

\* C7: GET /font/<key> and GET /font/<key>/file answer 400 for a key that
\* differs from its sanitised form, whether or not a file exists under it,
\* and 404 for a key in sanitised form without a file; a rejection changes
\* no file.
C7_BadKey400Missing404 ==
  [][ \A r \in GetIds :
        /\ (gets[r].pc = "new" /\ gets'[r].pc # "new") =>
             LET key == gets'[r].job_id
             IN /\ gets'[r].kind \in {"page", "file"}
                /\ sanitize_text(key) # key => gets'[r].status = 400
                /\ (sanitize_text(key) = key /\ outputs[key] = NoFile) =>
                     gets'[r].status = 404
        /\ Rejects(r) => (outputs' = outputs /\ uploads' = uploads)
    ]_vars

\* both endpoints rejected a request: one 400 for a key under which a file
\* exists, one 404
C7_Witness ==
  \E r1, r2 \in GetIds :
    /\ gets[r1].status = 400 /\ outputs[gets[r1].job_id] # NoFile
    /\ gets[r2].status = 404
    /\ gets[r1].kind # gets[r2].kind

\* C8: a step of a request changes no artifact but that of the request's own
\* key, and no upload but the request's own image_path.
C8_DistinctKeysNeverInterfere ==
  [][ /\ \A n \in OutputNames :
           outputs'[n] # outputs[n] =>
             \/ \E j \in JobIds : jobs'[j] # jobs[j] /\ jobs[j].filename = n
             \/ \E r \in GetIds : gets'[r] # gets[r] /\ gets[r].job_id = n
      /\ \A p \in (uploads' \ uploads) \cup (uploads \ uploads') :
           \E j \in JobIds :
             jobs'[j] # jobs[j] /\ jobs'[j].img_path = p /\ p.job_id = j
    ]_vars

\* the artifact of one key has been retrieved and removed while the artifact
\* and the upload of jobs with another key are in place
C8_Witness ==
  \E r \in GetIds, j \in JobIds :
    /\ gets[r].pc = "done" /\ gets[r].sent \in JobIds
    /\ jobs[j].filename \in ArtifactKeys \ {gets[r].job_id}
    /\ outputs[jobs[j].filename] = j
    /\ \E i \in JobIds : i # j /\ jobs[i].img_path \in uploads

\* C9: the artifact of a request that confirmed success is not deleted from
\* the output directory before a GET /font/<key>/file has streamed it.
C9_ArtifactRemainsUntilServed ==
  [][ \A k \in ArtifactKeys :
        (/\ outputs[k] \in JobIds
         /\ Succeeded(outputs[k])
         /\ outputs'[k] = NoFile) =>
          \E r \in GetIds : gets[r].sent = outputs[k]
    ]_vars

\* C10: a GET /font/<key>/file that streams is eventually closed, after a
\* complete or an aborted transfer; when it closes no file is left under
\* the key, and a file already gone leaves the response as it was.
C10_StreamedThenDeleted ==
  /\ \A r \in GetIds :
       (gets[r].pc = "streaming") ~>
         (gets[r].pc = "done" /\ gets[r].transfer \in {"complete", "aborted"})
  /\ [][ \A r \in GetIds :
           (gets[r].pc = "streaming" /\ gets'[r].pc # "streaming") =>
             /\ outputs'[gets[r].job_id] = NoFile
             /\ gets'[r].pc = "done" /\ gets'[r].status = 200
       ]_vars

\* two retrievals of one key have closed, one of them after an aborted
\* transfer: the one that closed last found the file gone
C10_Witness ==
  \E r1, r2 \in GetIds :
    /\ r1 # r2 /\ gets[r1].job_id = gets[r2].job_id
    /\ gets[r1].pc = "done" /\ gets[r1].transfer = "aborted"
    /\ gets[r2].pc = "done" /\ gets[r2].transfer = "complete"

\* a is b with some characters left out
RECURSIVE IsSubsequence(_, _)
IsSubsequence(a, b) ==
  IF a = <<>> THEN TRUE
  ELSE IF b = <<>> THEN FALSE
  ELSE IF Head(a) = Head(b) THEN IsSubsequence(Tail(a), Tail(b))
  ELSE IsSubsequence(a, Tail(b))

HasChar(s, chars) == \E i \in 1..Len(s) : s[i] \in chars

\* C12: sanitize_text(x) contains only letters, digits, spaces, hyphens and
\* underscores, has no leading or trailing whitespace, keeps the kept
\* characters in their order, and sanitising it again changes nothing.
C12_SanitizeAllowedTrimmedIdempotent ==
  probe.stage = "field" =>
    /\ \A i \in 1..Len(probe.key) :
         probe.key[i] \in Letters \cup Digits \cup {" ", "-", "_"}
    /\ probe.key # <<>> =>
         /\ probe.key[1] \notin Whitespace
         /\ probe.key[Len(probe.key)] \notin Whitespace
    /\ IsSubsequence(probe.key, probe.text)
    /\ probe.again = probe.key

\* a text that loses a refused character and surrounding spaces and keeps an
\* inner space
C12_Witness ==
  /\ probe.stage = "field"
  /\ probe.text # <<>>
  /\ Head(probe.text) = " "
  /\ HasChar(probe.text, {";", "\t"})
  /\ Len(probe.key) >= 2

\* C13: the key of every accepted filename field and of every accepted
\* retrieval key contains no "/", "." or ";", and its artifact path is the
\* direct child <key>.ttf of the output directory.
C13_ArtifactPathInsideOutputDir ==
  (/\ probe.stage \in {"field", "segment", "followed"}
   /\ probe.status \in {0, 200}) =>
    /\ probe.key # <<>>
    /\ ~HasChar(probe.key, {"/", ".", ";"})
    /\ probe.path = OUTPUT_DIR \o <<probe.key \o <<".", "t", "t", "f">>>>

\* a filename field that spells a path out of the output directory is
\* accepted under a key
C13_Witness ==
  /\ probe.stage = "field"
  /\ Len(probe.text) >= 3
  /\ SubSeq(probe.text, 1, 3) = <<".", ".", "/">>
  /\ probe.key # <<>>

\* C19: the key a successful POST /generate redirects to is non-empty and
\* equal to its sanitised form when the router hands it to the retrieval
\* views, so they do not answer 400.
C19_RedirectKeyAccepted ==
  probe.stage = "followed" =>
    /\ probe.status # 400
    /\ probe.text = probe.key
    /\ probe.key # <<>>
    /\ sanitize_text(probe.text) = probe.text

\* the redirect for a key with a space in it was followed
C19_Witness ==
  /\ probe.stage = "followed"
  /\ HasChar(probe.key, {" "})
  /\ probe.status = 200

\* C14: every file of the upload area is named <job_id>.<ext> with the
\* fresh id of its job and an allow-listed extension in lower case, and no
\* two generation requests use the same image_path.
C14_UploadNamesFreshAndDistinct ==
  /\ \A p \in uploads :
       /\ p.job_id \in JobIds
       /\ jobs[p.job_id].img_path = p
       /\ p.ext \in ALLOWED_EXTENSIONS
       /\ lower(p.ext) = p.ext
  /\ \A j1, j2 \in JobIds :
       (jobs[j1].img_path # NoPath /\ jobs[j1].img_path = jobs[j2].img_path)
         => j1 = j2

\* the uploads of two requests lie in the upload area at the same time
C14_Witness ==
  \E j1, j2 \in JobIds :
    /\ j1 # j2
    /\ jobs[j1].img_path \in uploads
    /\ jobs[j2].img_path \in uploads

\* C15: a POST /generate request starts the tool at most once; once it has
\* responded (timeout, non-zero exit, tool unavailable, missing output or
\* success) it starts nothing more.
C15_ToolInvokedAtMostOnce ==
  /\ [](\A j \in JobIds : jobs[j].runs <= 1)
  /\ [][ \A j \in JobIds :
           jobs[j].pc = "done" =>
             /\ jobs'[j].pc = "done"
             /\ jobs'[j].runs = jobs[j].runs
             /\ jobs'[j].child = jobs[j].child
       ]_vars

\* a request ended after a timeout and another one after a non-zero exit,
\* each with one run of the tool
C15_Witness ==
  \E j1, j2 \in JobIds :
    /\ jobs[j1].pc = "done" /\ TimedOut(j1) /\ jobs[j1].runs = 1
    /\ jobs[j2].pc = "done" /\ jobs[j2].flash = "handwrite failed"
    /\ jobs[j2].runs = 1

\* the messages of the generation-side errors after validation
ToolMessages ==
  { "handwrite is not installed.",
    "Font generation timed out.",
    "handwrite failed",
    "handwrite ran but produced no output file." }

\* C16: every POST /generate request reaches its response (a request never
\* leaves the state "done", so this is: from some point on no request is
\* waiting for its response), and a response that is not the success
\* redirect carries one of the error messages and the redirect back to the
\* form.
C16_EveryRequestRespondsErrorsRedirectToForm ==
  /\ [](\A j \in JobIds :
          jobs[j].pc = "done" =>
            \/ Succeeded(j)
            \/ /\ jobs[j].redirect = <<"generate">>
               /\ jobs[j].flash \in ValidationMessages \cup ToolMessages)
  /\ <>[](\A j \in JobIds : jobs[j].pc \notin {"saved", "running", "check"})

\* one request ended with the tool unavailable and another with a missing
\* output after a zero exit
C16_Witness ==
  \E j1, j2 \in JobIds :
    /\ jobs[j1].pc = "done"
    /\ jobs[j1].flash = "handwrite is not installed."
    /\ jobs[j1].redirect = <<"generate">>
    /\ jobs[j2].pc = "done"
    /\ jobs[j2].flash = "handwrite ran but produced no output file."
    /\ jobs[j2].redirect = <<"generate">>

\* C17: a GET /font/<key>/file streams an artifact only if some POST
\* /generate request for that key has ended in confirmed success; the file
\* of a tool run that ended in a non-zero exit or a timeout is not streamed.
C17_StreamedOnlyAfterConfirmedSuccess ==
  \A r \in GetIds :
    gets[r].sent \in JobIds =>
      /\ \E j \in JobIds :
           Succeeded(j) /\ jobs[j].filename = gets[r].job_id
      /\ ~(/\ jobs[gets[r].sent].pc = "done"
           /\ jobs[gets[r].sent].flash
                \in {"handwrite failed", "Font generation timed out."})

\* C18: when a POST /generate request reports success for key k, the file
\* under k whose existence it checked was written by the tool run of that
\* same request, whatever other requests with key k do at the same time.
C18_SuccessChecksOwnArtifact ==
  [][ \A j \in JobIds :
        (Responds(j) /\ Succeeded(j)') =>
          outputs[jobs[j].filename] = j
    ]_vars

\* C11: after two successful generation requests with the same key k, made
\* one after the other with no retrieval before the second has responded,
\* the one file under k is the one the second request's tool run wrote (as
\* long as no retrieval of k has arrived), at most one GET /font/k/file
\* answers 200, and one that arrives after a retrieval has streamed and
\* closed answers 404.
C11_SecondJobOverwritesOneRetrieval ==
  \A j1, j2 \in JobIds :
    (/\ j1 < j2
     /\ Succeeded(j1) /\ Succeeded(j2)
     /\ jobs[j1].filename = jobs[j2].filename
     /\ \A i \in JobIds \ {j1, j2} :
          jobs[i].pc = "done" /\ jobs[i].filename # jobs[j2].filename) =>
      LET k == jobs[j2].filename
          retrievals == {r \in GetIds : /\ gets[r].kind = "file"
                                        /\ gets[r].job_id = k}
      IN /\ (\A r \in GetIds : gets[r].job_id # k) => outputs[k] = j2
         /\ Cardinality({r \in retrievals : gets[r].status = 200}) <= 1
         /\ \A r \in retrievals :
              (gets[r].pc = "done" /\ gets[r].after_served)
                => gets[r].status = 404

====
